---- MODULE Spec2Model ----
(***************************************************************************)
(* A model of tools/build_pack.py: the selector (build_characters,         *)
(* build_weapons), the normalizers (rarity_from_quality,                   *)
(* weapon_type_short), the difference hash (dhash_hex), the hash index     *)
(* builder (build_hash_index) and the pack writer (main).                  *)
(***************************************************************************)
EXTENDS Integers, Sequences, FiniteSets, TLC

VARIABLES
    pc,            \* position of the run: "start", "hidx", "save", "now", "manifest", "done", "failed"
    avatars,       \* upstream avatar record list (AvatarExcelConfigData.json)
    weapons,       \* upstream weapon record list (WeaponExcelConfigData.json)
    textmap,       \* upstream text map (TextMapEN.json)
    N_CHARACTERS,  \* configured maximum of the characters table
    N_WEAPONS,     \* configured maximum of the weapons table
    chars,         \* result of build_characters: [raised, out]
    weaps,         \* result of build_weapons: [raised, out]
    outcome,       \* what each icon fetch of this run met: [c: Seq, w: Seq]
    hidx_char,     \* result of build_hash_index(chars): [raised, idx]
    hidx_weap,     \* result of build_hash_index(weaps): [raised, idx]
    files,         \* the output directory: file name -> content
    clock,         \* the last time the UTC clock was read (seconds)
    now,           \* main's local `now`
    manifest,      \* main's local `manifest`
    runs,          \* number of runs of main started
    prev,          \* what the previous complete run wrote and met
    resized,       \* dhash_hex: the resized gray grid
    dhash          \* dhash_hex: the returned hex string

vars == <<pc, avatars, weapons, textmap, N_CHARACTERS, N_WEAPONS, chars, weaps,
          outcome, hidx_char, hidx_weap, files, clock, now, manifest, runs, prev,
          resized, dhash>>

(***************************************************************************)
(* Bounds of the model.                                                    *)
(***************************************************************************)
MaxLen == 3        \* longest candidate list given to a builder
MaxId == 2         \* largest numeric id of a candidate
MaxN == 2          \* largest configured maximum
MaxClock == 3      \* last second the clock can show
MaxRuns == 2       \* runs of main on the same output directory
HashSize == 2      \* hash_size given to dhash_hex
DayLen == 2        \* seconds in a day, scaled down

(***************************************************************************)
(* JSON / Python values.  A field of an upstream record is missing (the    *)
(* key is not in the dict), null, an integer or a string.                  *)
(***************************************************************************)
Missing == [t |-> "missing"]
None == [t |-> "none"]
Int_(n) == [t |-> "int", v |-> n]
Str(s) == [t |-> "str", v |-> s]

\* dict.get(key): a missing key reads as None
Get(x) == IF x = Missing THEN None ELSE x

\* dict.get(key, default)
GetD(x, d) == IF x = Missing THEN d ELSE x

\* Python truthiness of None, an int or a str
Truthy(x) ==
    CASE x.t = "int" -> x.v # 0
      [] x.t = "str" -> x.v # ""
      [] OTHER -> FALSE

Digits == <<"0", "1", "2", "3", "4", "5", "6", "7", "8", "9">>

RECURSIVE IntToStr(_)
IntToStr(n) ==
    IF n < 10 THEN Digits[n + 1]
    ELSE IntToStr(n \div 10) \o Digits[(n % 10) + 1]

\* str(x)
PyStr(x) ==
    CASE x.t = "int" -> IntToStr(x.v)
      [] x.t = "str" -> x.v
      [] OTHER -> "None"

IsDigit(c) == \E d \in 1..10 : Digits[d] = c

DigitVal(c) == (CHOOSE d \in 1..10 : Digits[d] = c) - 1

IsDecimal(s) == Len(s) > 0 /\ \A i \in 1..Len(s) : IsDigit(SubSeq(s, i, i))

RECURSIVE ParseDecimal(_)
ParseDecimal(s) ==
    IF Len(s) = 0 THEN 0
    ELSE 10 * ParseDecimal(SubSeq(s, 1, Len(s) - 1)) + DigitVal(SubSeq(s, Len(s), Len(s)))

\* int(x): TypeError on None, ValueError on a string that is no number
PyInt(x) ==
    CASE x.t = "int" -> [ok |-> TRUE, v |-> x.v]
      [] x.t = "str" /\ IsDecimal(x.v) -> [ok |-> TRUE, v |-> ParseDecimal(x.v)]
      [] OTHER -> [ok |-> FALSE, v |-> 0]

\* str.startswith
StartsWith(s, p) == Len(s) >= Len(p) /\ SubSeq(s, 1, Len(p)) = p

(***************************************************************************)
(* An insertion-ordered dict is a sequence of [k, v] entries.              *)
(***************************************************************************)
Keys(d) == {d[i].k : i \in 1..Len(d)}

DictGet(d, k) == d[CHOOSE i \in 1..Len(d) : d[i].k = k].v

\* d[k] = v: a present key keeps its place, a new key goes last
DictSet(d, k, v) ==
    IF k \in Keys(d)
    THEN [i \in 1..Len(d) |-> IF d[i].k = k THEN [k |-> k, v |-> v] ELSE d[i]]
    ELSE Append(d, [k |-> k, v |-> v])

\* textmap.get(h, default)
TextGet(tm, h, default) == IF h \in DOMAIN tm THEN tm[h] ELSE default

(***************************************************************************)
(* Record normalizer.                                                      *)
(***************************************************************************)
\* rarity_from_quality: 0 stands for None
rarity_from_quality(q) ==
    CASE q = "QUALITY_ORANGE" -> 5
      [] q = "QUALITY_PURPLE" -> 4
      [] q = "QUALITY_BLUE" -> 3
      [] q = "QUALITY_GREEN" -> 2
      [] q = "QUALITY_WHITE" -> 1
      [] OTHER -> 0

weapon_type_short(wt) ==
    CASE wt = "WEAPON_SWORD_ONE_HAND" -> "Sword"
      [] wt = "WEAPON_CLAYMORE" -> "Claymore"
      [] wt = "WEAPON_POLE" -> "Polearm"
      [] wt = "WEAPON_CATALYST" -> "Catalyst"
      [] wt = "WEAPON_BOW" -> "Bow"
      [] OTHER -> IF wt # "" THEN wt ELSE "Unknown"

(***************************************************************************)
(* Selector.                                                               *)
(***************************************************************************)
\* the sort key int(x.get("id", 0))
IdKey(x) == PyInt(GetD(x.id, Int_(0)))

RECURSIVE InsertById(_, _)
InsertById(s, x) ==
    IF s = <<>> THEN <<x>>
    ELSE IF IdKey(s[Len(s)]).v <= IdKey(x).v THEN Append(s, x)
    ELSE Append(InsertById(SubSeq(s, 1, Len(s) - 1), x), s[Len(s)])

\* sorted(list, key=...): stable, ascending
RECURSIVE SortedById(_)
SortedById(list) ==
    IF list = <<>> THEN <<>>
    ELSE InsertById(SortedById(SubSeq(list, 1, Len(list) - 1)), list[Len(list)])

\* sorted raises when the key of any element raises
SortRaises(list) == \E i \in 1..Len(list) : ~IdKey(list[i]).ok

LimitReachedOffByOne(out, n) == Len(out) > n

\* the loop's `if len(out) >= N: break`
LimitReached(out, n) == Len(out) >= n

CharacterRecordNoElement(name, rarity, wt, icon) ==
    [name |-> name, rarity |-> rarity, weapon_type |-> wt, icon_name |-> icon]

\* the record build_characters emits
CharacterRecord(name, rarity, wt, icon) ==
    [name |-> name, rarity |-> rarity, element |-> None, weapon_type |-> wt,
     icon_name |-> icon]

\* the record build_weapons emits
WeaponRecord(name, rarity, wt, icon) ==
    [name |-> name, rarity |-> rarity, type |-> wt, icon_name |-> icon]

\* one iteration of build_characters' loop body, after the limit check
CharacterStep(out, a, tm) ==
    LET id == Get(a.id)
        icon == Get(a.iconName)
        q == Get(a.qualityType)
        wt == Get(a.weaponType)
        name_hash == PyStr(GetD(a.nameTextMapHash, Str("")))
        rarity == rarity_from_quality(PyStr(q))
    IN  IF ~Truthy(id) \/ ~Truthy(icon) THEN out
        ELSE IF ~StartsWith(PyStr(icon), "UI_AvatarIcon_") THEN out
        ELSE IF rarity = 0 THEN out
        ELSE DictSet(out, PyStr(id),
                     CharacterRecord(TextGet(tm, name_hash, "#" \o PyStr(id)), rarity,
                                     weapon_type_short(PyStr(wt)), PyStr(icon)))

RECURSIVE CharacterLoop(_, _, _, _)
CharacterLoop(out, list, i, tm) ==
    IF i > Len(list) \/ LimitReached(out, N_CHARACTERS) THEN out
    ELSE CharacterLoop(CharacterStep(out, list[i], tm), list, i + 1, tm)

build_characters(avs, tm) ==
    IF SortRaises(avs) THEN [raised |-> TRUE, out |-> <<>>]
    ELSE [raised |-> FALSE, out |-> CharacterLoop(<<>>, SortedById(avs), 1, tm)]

\* one iteration of build_weapons' loop body, after the limit check
WeaponStep(out, w, tm) ==
    LET id == Get(w.id)
        icon == Get(w.icon)
        wt == Get(w.weaponType)
        rank_level == Get(w.rankLevel)
        name_hash == PyStr(GetD(w.nameTextMapHash, Str("")))
        rarity == PyInt(rank_level)
    IN  IF ~Truthy(id) \/ ~Truthy(icon) THEN out
        ELSE IF ~StartsWith(PyStr(icon), "UI_EquipIcon_") THEN out
        ELSE IF ~rarity.ok THEN out
        ELSE DictSet(out, PyStr(id),
                     WeaponRecord(TextGet(tm, name_hash, "#" \o PyStr(id)), rarity.v,
                                  weapon_type_short(PyStr(wt)), PyStr(icon)))

RECURSIVE WeaponLoop(_, _, _, _)
WeaponLoop(out, list, i, tm) ==
    IF i > Len(list) \/ LimitReached(out, N_WEAPONS) THEN out
    ELSE WeaponLoop(WeaponStep(out, list[i], tm), list, i + 1, tm)

build_weapons(ws, tm) ==
    IF SortRaises(ws) THEN [raised |-> TRUE, out |-> <<>>]
    ELSE [raised |-> FALSE, out |-> WeaponLoop(<<>>, SortedById(ws), 1, tm)]

(***************************************************************************)
(* Perceptual hasher.  dhash_hex is modelled from the resized gray grid    *)
(* on: hash_size rows of hash_size + 1 pixels (cv2.cvtColor and cv2.resize *)
(* are the library's).                                                     *)
(***************************************************************************)
DiffBitGE(grid, r, c) == IF grid[r][c + 1] >= grid[r][c] THEN 1 ELSE 0

\* diff = resized[:, 1:] > resized[:, :-1], at row r and column c
DiffBit(grid, r, c) == IF grid[r][c + 1] > grid[r][c] THEN 1 ELSE 0

\* diff.flatten(): row-major
FlattenDiff(grid, hash_size) ==
    [i \in 1..(hash_size * hash_size) |->
        DiffBit(grid, ((i - 1) \div hash_size) + 1, ((i - 1) % hash_size) + 1)]

\* val = (val << 1) | bit, over the bits in order
RECURSIVE PackBits(_)
PackBits(bits) ==
    IF bits = <<>> THEN 0
    ELSE 2 * PackBits(SubSeq(bits, 1, Len(bits) - 1)) + bits[Len(bits)]

HexDigits == "0123456789abcdef"

RECURSIVE HexOf(_)
HexOf(val) ==
    IF val < 16 THEN SubSeq(HexDigits, val + 1, val + 1)
    ELSE HexOf(val \div 16) \o SubSeq(HexDigits, (val % 16) + 1, (val % 16) + 1)

RECURSIVE ZeroPad(_, _)
ZeroPad(s, width) == IF Len(s) >= width THEN s ELSE ZeroPad("0" \o s, width)

\* f"{val:0{width}x}"
FormatHex(val, width) == ZeroPad(HexOf(val), width)

dhash_hex(grid, hash_size) ==
    FormatHex(PackBits(FlattenDiff(grid, hash_size)), (hash_size * hash_size + 3) \div 4)

(***************************************************************************)
(* Hash index builder.                                                     *)
(***************************************************************************)
\* what one icon can meet: the fetch raises, the decoder returns None,
\* normalizing or hashing raises, or all of it succeeds
Outcomes == {"ok", "fetch_error", "decode_none", "hash_error"}

\* the resized gray grid of the asset an icon name denotes
Asset(icon_name) ==
    [r \in 1..HashSize |-> [c \in 1..(HashSize + 1) |->
        CASE icon_name = "UI_AvatarIcon_A" -> c
          [] icon_name = "UI_AvatarIcon_B" -> HashSize + 1 - c
          [] OTHER -> (r + c) % 2]]

TryIconPlaceholder(icon_name, o) ==
    CASE o = "fetch_error" -> [st |-> "exc", h |-> ""]
      [] o = "decode_none" -> [st |-> "ok", h |-> ""]
      [] o = "hash_error" -> [st |-> "exc", h |-> ""]
      [] OTHER -> [st |-> "ok", h |-> dhash_hex(Asset(icon_name), HashSize)]

\* the body of the try block for one icon
TryIcon(icon_name, o) ==
    CASE o = "fetch_error" -> [st |-> "exc", h |-> ""]
      [] o = "decode_none" -> [st |-> "none", h |-> ""]
      [] o = "hash_error" -> [st |-> "exc", h |-> ""]
      [] OTHER -> [st |-> "ok", h |-> dhash_hex(Asset(icon_name), HashSize)]

HandlesFetchOnly(o) == o = "fetch_error"

\* `except Exception` handles whatever the try block raised
Handles(o) == TRUE

RECURSIVE HashIndexLoop(_, _, _, _)
HashIndexLoop(idx, items, i, oc) ==
    IF i > Len(items) THEN [raised |-> FALSE, idx |-> idx]
    ELSE LET icon_name == items[i].v.icon_name
             t == TryIcon(icon_name, oc[i])
         IN  IF icon_name = "" THEN HashIndexLoop(idx, items, i + 1, oc)
             ELSE IF t.st = "exc"
                  THEN IF Handles(oc[i]) THEN HashIndexLoop(idx, items, i + 1, oc)
                       ELSE [raised |-> TRUE, idx |-> idx]
             ELSE IF t.st = "none" THEN HashIndexLoop(idx, items, i + 1, oc)
             ELSE HashIndexLoop(DictSet(idx, items[i].k, t.h), items, i + 1, oc)

\* oc[i] is what the icon of the i-th item meets
build_hash_index(items, oc) == HashIndexLoop(<<>>, items, 1, oc)

(***************************************************************************)
(* Pack writer and manifest builder.                                       *)
(***************************************************************************)
OUT_CHAR == "characters.json"
OUT_WEAP == "weapons.json"
OUT_HIDX_CHAR == "hash_index_characters.json"
OUT_HIDX_WEAP == "hash_index_weapons.json"
OUT_MANIFEST == "manifest.json"

FileNames == {OUT_CHAR, OUT_WEAP, OUT_HIDX_CHAR, OUT_HIDX_WEAP, OUT_MANIFEST}

Quote(s) == "\"" \o s \o "\""

RECURSIVE Join(_)
Join(members) ==
    IF members = <<>> THEN ""
    ELSE IF Len(members) = 1 THEN members[1]
    ELSE members[1] \o "," \o Join(SubSeq(members, 2, Len(members)))

JsonObject(members) == "{" \o Join(members) \o "}"

Member(k, rendered) == Quote(k) \o ":" \o rendered

\* json.dump of a characters table: keys and fields in insertion order
DumpCharacters(d) ==
    JsonObject([i \in 1..Len(d) |-> Member(d[i].k, JsonObject(<<
        Member("name", Quote(d[i].v.name)),
        Member("rarity", IntToStr(d[i].v.rarity)),
        Member("element", "null"),
        Member("weapon_type", Quote(d[i].v.weapon_type)),
        Member("icon_name", Quote(d[i].v.icon_name))>>))])

\* json.dump of a weapons table
DumpWeapons(d) ==
    JsonObject([i \in 1..Len(d) |-> Member(d[i].k, JsonObject(<<
        Member("name", Quote(d[i].v.name)),
        Member("rarity", IntToStr(d[i].v.rarity)),
        Member("type", Quote(d[i].v.type)),
        Member("icon_name", Quote(d[i].v.icon_name))>>))])

\* json.dump of a hash index
DumpIndex(d) == JsonObject([i \in 1..Len(d) |-> Member(d[i].k, Quote(d[i].v))])

\* hashlib.sha256 over the bytes of a file: the digest is taken to be
\* collision free, so it stands for the bytes it was computed from
Sha256(bytes) == "sha256(" \o bytes \o ")"

sha256_file(fs, path) == Sha256(fs[path])

\* datetime.isoformat(timespec="seconds") of the time t
IsoFormat(t) == [date |-> t \div DayLen, time |-> t % DayLen]

\* datetime.strftime("%Y-%m-%d") of the time t
StrfDate(t) == t \div DayLen

\* the list main's digest loop goes through
ManifestPaths == <<OUT_CHAR, OUT_WEAP, OUT_HIDX_CHAR, OUT_HIDX_WEAP>>

ManifestFilesBeforeSave(fs) ==
    LET names == {ManifestPaths[i] : i \in 1..Len(ManifestPaths)}
    IN  [p \in names |-> [sha256 |-> sha256_file(prev.files, p)]]

\* manifest["files"] after the digest loop over the directory fs
ManifestFiles(fs) ==
    LET names == {ManifestPaths[i] : i \in 1..Len(ManifestPaths)}
    IN  [p \in names |-> [sha256 |-> sha256_file(fs, p)]]

DumpManifest(m) ==
    JsonObject(<<
        Member("version", Quote(IntToStr(m.version))),
        Member("generated_at",
               Quote(IntToStr(m.generated_at.date) \o "T" \o IntToStr(m.generated_at.time))),
        Member("counts", JsonObject(<<
            Member("characters", IntToStr(m.counts.characters)),
            Member("weapons", IntToStr(m.counts.weapons)),
            Member("hash_characters", IntToStr(m.counts.hash_characters)),
            Member("hash_weapons", IntToStr(m.counts.hash_weapons))>>)),
        Member("files", JsonObject([i \in 1..Len(ManifestPaths) |->
            Member(ManifestPaths[i],
                   IF ManifestPaths[i] \in DOMAIN m.files
                   THEN JsonObject(<<Member("sha256", Quote(m.files[ManifestPaths[i]].sha256))>>)
                   ELSE "null")]))>>)

(***************************************************************************)
(* Values a variable holds before the code has assigned it.                *)
(***************************************************************************)
NoTable == [raised |-> FALSE, out |-> <<>>]
NoIndex == [raised |-> FALSE, idx |-> <<>>]
NoOutcome == [c |-> <<>>, w |-> <<>>]
NoFiles == [p \in FileNames |-> ""]
NoManifest == [version |-> 0, generated_at |-> IsoFormat(0),
               counts |-> [characters |-> 0, weapons |-> 0, hash_characters |-> 0,
                           hash_weapons |-> 0],
               files |-> <<>>]
NoPrev == [files |-> NoFiles, outcome |-> NoOutcome]
NoGrid == <<>>

TextMapEN == ("123" :> "Kamisato Ayaka")

(***************************************************************************)
(* The run of main, step by step.                                          *)
(***************************************************************************)
\* lines 209-217: the three documents are in, the tables are built
MainBuild ==
    /\ pc = "start"
    /\ LET c == build_characters(avatars, textmap)
           w == build_weapons(weapons, textmap)
       IN  /\ chars' = c
           /\ weaps' = IF c.raised THEN weaps ELSE w
           /\ pc' = IF c.raised \/ w.raised THEN "failed" ELSE "hidx"
    /\ UNCHANGED <<avatars, weapons, textmap, N_CHARACTERS, N_WEAPONS, outcome,
                   hidx_char, hidx_weap, files, clock, now, manifest, runs, prev,
                   resized, dhash>>

\* lines 223-224: each icon is fetched, decoded and hashed, with what it meets
MainHashIndex ==
    /\ pc = "hidx"
    /\ \E oc \in [1..Len(chars.out) -> Outcomes], ow \in [1..Len(weaps.out) -> Outcomes] :
          LET hc == build_hash_index(chars.out, oc)
              hw == build_hash_index(weaps.out, ow)
          IN  /\ outcome' = [c |-> oc, w |-> ow]
              /\ hidx_char' = hc
              /\ hidx_weap' = IF hc.raised THEN hidx_weap ELSE hw
              /\ pc' = IF hc.raised \/ hw.raised THEN "failed" ELSE "save"
    /\ UNCHANGED <<avatars, weapons, textmap, N_CHARACTERS, N_WEAPONS, chars, weaps,
                   files, clock, now, manifest, runs, prev, resized, dhash>>

\* lines 229-232: the four data artifacts are written
MainSave ==
    /\ pc = "save"
    /\ files' = [files EXCEPT ![OUT_CHAR] = DumpCharacters(chars.out),
                              ![OUT_WEAP] = DumpWeapons(weaps.out),
                              ![OUT_HIDX_CHAR] = DumpIndex(hidx_char.idx),
                              ![OUT_HIDX_WEAP] = DumpIndex(hidx_weap.idx)]
    /\ pc' = "now"
    /\ UNCHANGED <<avatars, weapons, textmap, N_CHARACTERS, N_WEAPONS, chars, weaps,
                   outcome, hidx_char, hidx_weap, clock, now, manifest, runs, prev,
                   resized, dhash>>

\* line 234: the first read of the clock
MainNow ==
    /\ pc = "now"
    /\ \E t \in clock..MaxClock :
          /\ clock' = t
          /\ now' = IsoFormat(t)
    /\ pc' = "manifest"
    /\ UNCHANGED <<avatars, weapons, textmap, N_CHARACTERS, N_WEAPONS, chars, weaps,
                   outcome, hidx_char, hidx_weap, files, manifest, runs, prev,
                   resized, dhash>>

\* lines 235-258: the second read of the clock, the digests, the manifest file
MainManifest ==
    /\ pc = "manifest"
    /\ \E t \in clock..MaxClock :
          LET m == [version |-> StrfDate(t),
                    generated_at |-> now,
                    counts |-> [characters |-> Len(chars.out),
                                weapons |-> Len(weaps.out),
                                hash_characters |-> Len(hidx_char.idx),
                                hash_weapons |-> Len(hidx_weap.idx)],
                    files |-> ManifestFiles(files)]
          IN  /\ clock' = t
              /\ manifest' = m
              /\ files' = [files EXCEPT ![OUT_MANIFEST] = DumpManifest(m)]
    /\ pc' = "done"
    /\ UNCHANGED <<avatars, weapons, textmap, N_CHARACTERS, N_WEAPONS, chars, weaps,
                   outcome, hidx_char, hidx_weap, now, runs, prev, resized, dhash>>

\* line 262-263: the script is run again on the same directory and inputs
Rerun ==
    /\ pc = "done"
    /\ runs < MaxRuns
    /\ runs' = runs + 1
    /\ prev' = [files |-> files, outcome |-> outcome]
    /\ pc' = "start"
    /\ UNCHANGED <<avatars, weapons, textmap, N_CHARACTERS, N_WEAPONS, chars, weaps,
                   outcome, hidx_char, hidx_weap, files, clock, now, manifest,
                   resized, dhash>>

(***************************************************************************)
(* Inputs.                                                                 *)
(***************************************************************************)
BaseAvatar(i) ==
    [id |-> Int_(i), iconName |-> Str("UI_AvatarIcon_A"),
     qualityType |-> Str("QUALITY_PURPLE"), weaponType |-> Str("WEAPON_BOW"),
     nameTextMapHash |-> Str("123")]

BaseWeapon(i) ==
    [id |-> Int_(i), icon |-> Str("UI_EquipIcon_A"),
     weaponType |-> Str("WEAPON_SWORD_ONE_HAND"), rankLevel |-> Int_(4),
     nameTextMapHash |-> Str("123")]

\* an id field: missing, not a number, zero, or a number up to MaxId
IdValues == {Missing, Str("abc")} \cup {Int_(i) : i \in 0..MaxId}

\* avatar records: a well-formed one, changed in one place
AvatarCandidates ==
    {[BaseAvatar(1) EXCEPT !.id = x] : x \in IdValues}
    \cup {[BaseAvatar(1) EXCEPT !.iconName = x] : x \in {Missing, Str("UI_EquipIcon_A")}}
    \cup {[BaseAvatar(2) EXCEPT !.qualityType = x] :
             x \in {Str("QUALITY_RED"), Str("QUALITY_WHITE")}}
    \cup {[BaseAvatar(2) EXCEPT !.weaponType = x, !.nameTextMapHash = Missing] :
             x \in {Missing, Str("WEAPON_GUN")}}

\* weapon records: a well-formed one, changed in one place
WeaponCandidates ==
    {[BaseWeapon(1) EXCEPT !.id = x] : x \in IdValues}
    \cup {[BaseWeapon(1) EXCEPT !.icon = x] : x \in {Missing, Str("UI_AvatarIcon_A")}}
    \cup {[BaseWeapon(2) EXCEPT !.rankLevel = x] : x \in {Int_(9), Str("x")}}
    \cup {[BaseWeapon(2) EXCEPT !.weaponType = x, !.nameTextMapHash = Missing] :
             x \in {Missing, Str("")}}

ListsOver(S) == UNION {[1..n -> S] : n \in 0..MaxLen}

(***************************************************************************)
(* SpecSel: a builder applied to a candidate list.                         *)
(***************************************************************************)
InitSel ==
    /\ pc = "start"
    /\ \/ avatars \in ListsOver(AvatarCandidates) /\ weapons = <<>>
       \/ avatars = <<>> /\ weapons \in ListsOver(WeaponCandidates)
    /\ textmap = TextMapEN
    /\ N_CHARACTERS \in 0..MaxN
    /\ N_WEAPONS = N_CHARACTERS
    /\ chars = NoTable /\ weaps = NoTable
    /\ outcome = NoOutcome /\ hidx_char = NoIndex /\ hidx_weap = NoIndex
    /\ files = NoFiles /\ clock = 0 /\ now = IsoFormat(0) /\ manifest = NoManifest
    /\ runs = 1 /\ prev = NoPrev /\ resized = NoGrid /\ dhash = ""

BuildCharacters ==
    /\ pc = "start"
    /\ chars' = build_characters(avatars, textmap)
    /\ pc' = "chars"
    /\ UNCHANGED <<avatars, weapons, textmap, N_CHARACTERS, N_WEAPONS, weaps, outcome,
                   hidx_char, hidx_weap, files, clock, now, manifest, runs, prev,
                   resized, dhash>>

BuildWeapons ==
    /\ pc = "start"
    /\ weaps' = build_weapons(weapons, textmap)
    /\ pc' = "weaps"
    /\ UNCHANGED <<avatars, weapons, textmap, N_CHARACTERS, N_WEAPONS, chars, outcome,
                   hidx_char, hidx_weap, files, clock, now, manifest, runs, prev,
                   resized, dhash>>

NextSel == BuildCharacters \/ BuildWeapons

SpecSel == InitSel /\ [][NextSel]_vars

(***************************************************************************)
(* Spec: runs of main on a handful of upstream inputs.                     *)
(***************************************************************************)
MainAvatarLists ==
    { <<>>,
      <<BaseAvatar(1)>>,
      <<[BaseAvatar(2) EXCEPT !.iconName = Str("UI_AvatarIcon_B")], BaseAvatar(1)>>,
      <<BaseAvatar(1), [BaseAvatar(2) EXCEPT !.qualityType = Str("QUALITY_RED")]>>,
      <<[BaseAvatar(1) EXCEPT !.id = Str("abc")]>> }

MainWeaponLists == { <<>>, <<BaseWeapon(1)>> }

Init ==
    /\ pc = "start"
    /\ avatars \in MainAvatarLists
    /\ weapons \in MainWeaponLists
    /\ textmap = TextMapEN
    /\ N_CHARACTERS = MaxN
    /\ N_WEAPONS = MaxN
    /\ chars = NoTable /\ weaps = NoTable
    /\ outcome = NoOutcome /\ hidx_char = NoIndex /\ hidx_weap = NoIndex
    /\ files = NoFiles /\ clock = 0 /\ now = IsoFormat(0) /\ manifest = NoManifest
    /\ runs = 1 /\ prev = NoPrev /\ resized = NoGrid /\ dhash = ""

Next == MainBuild \/ MainHashIndex \/ MainSave \/ MainNow \/ MainManifest \/ Rerun

Spec == Init /\ [][Next]_vars

(***************************************************************************)
(* SpecHash: dhash_hex applied to a resized grid.                          *)
(***************************************************************************)
PixelValues == {0, 128, 255}

InitHash ==
    /\ pc = "start"
    /\ resized \in [1..HashSize -> [1..(HashSize + 1) -> PixelValues]]
    /\ dhash = ""
    /\ avatars = <<>> /\ weapons = <<>> /\ textmap = TextMapEN
    /\ N_CHARACTERS = MaxN /\ N_WEAPONS = MaxN
    /\ chars = NoTable /\ weaps = NoTable
    /\ outcome = NoOutcome /\ hidx_char = NoIndex /\ hidx_weap = NoIndex
    /\ files = NoFiles /\ clock = 0 /\ now = IsoFormat(0) /\ manifest = NoManifest
    /\ runs = 1 /\ prev = NoPrev

DhashHex ==
    /\ pc = "start"
    /\ dhash' = dhash_hex(resized, HashSize)
    /\ pc' = "done"
    /\ UNCHANGED <<avatars, weapons, textmap, N_CHARACTERS, N_WEAPONS, chars, weaps,
                   outcome, hidx_char, hidx_weap, files, clock, now, manifest, runs,
                   prev, resized>>

NextHash == DhashHex

SpecHash == InitHash /\ [][NextHash]_vars

(***************************************************************************)
(* Properties.                                                             *)
(***************************************************************************)
Min(a, b) == IF a <= b THEN a ELSE b

DataFiles == {OUT_CHAR, OUT_WEAP, OUT_HIDX_CHAR, OUT_HIDX_WEAP}

\* the selector's filters for a character candidate, as the contract lists them
PassesCharacterFilters(a) ==
    /\ Truthy(Get(a.id))
    /\ Truthy(Get(a.iconName))
    /\ StartsWith(PyStr(Get(a.iconName)), "UI_AvatarIcon_")
    /\ rarity_from_quality(PyStr(Get(a.qualityType))) \in 1..5

\* the selector's filters for a weapon candidate
PassesWeaponFilters(w) ==
    /\ Truthy(Get(w.id))
    /\ Truthy(Get(w.icon))
    /\ StartsWith(PyStr(Get(w.icon)), "UI_EquipIcon_")
    /\ PyInt(Get(w.rankLevel)).ok

PassingAvatars == {i \in 1..Len(avatars) : PassesCharacterFilters(avatars[i])}
PassingWeapons == {i \in 1..Len(weapons) : PassesWeaponFilters(weapons[i])}
PassingAvatarKeys == {PyStr(Get(avatars[i].id)) : i \in PassingAvatars}
PassingWeaponKeys == {PyStr(Get(weapons[i].id)) : i \in PassingWeapons}

CharsBuilt == pc = "chars" /\ ~chars.raised
WeapsBuilt == pc = "weaps" /\ ~weaps.raised

\* C1 as stated: a returned table has at most N entries, and exactly N
\* whenever at least N candidates of the list pass all filters.
C1_CardinalityByCandidates ==
    /\ CharsBuilt =>
          /\ Len(chars.out) <= N_CHARACTERS
          /\ Cardinality(PassingAvatars) >= N_CHARACTERS => Len(chars.out) = N_CHARACTERS
    /\ WeapsBuilt =>
          /\ Len(weaps.out) <= N_WEAPONS
          /\ Cardinality(PassingWeapons) >= N_WEAPONS => Len(weaps.out) = N_WEAPONS

\* C1 amended: a returned table has at most N entries, and exactly
\* min(N, number of distinct stringified ids among the passing candidates);
\* so exactly N whenever the passing candidates carry at least N distinct ids.
C1_CardinalityByKeys ==
    /\ CharsBuilt =>
          /\ Len(chars.out) <= N_CHARACTERS
          /\ Len(chars.out) = Min(N_CHARACTERS, Cardinality(PassingAvatarKeys))
          /\ Cardinality(Keys(chars.out)) = Len(chars.out)
    /\ WeapsBuilt =>
          /\ Len(weaps.out) <= N_WEAPONS
          /\ Len(weaps.out) = Min(N_WEAPONS, Cardinality(PassingWeaponKeys))
          /\ Cardinality(Keys(weaps.out)) = Len(weaps.out)

\* C1's case: more passing candidates than distinct ids, and more distinct
\* ids than the maximum, so the table is cut at N
C1_Witness ==
    /\ CharsBuilt
    /\ N_CHARACTERS >= 1
    /\ Cardinality(PassingAvatars) > Cardinality(PassingAvatarKeys)
    /\ Cardinality(PassingAvatarKeys) > N_CHARACTERS
    /\ Len(chars.out) = N_CHARACTERS

\* C2 as stated: every record of either table has a rarity in 1..5.
C2_RarityRange ==
    /\ CharsBuilt => \A i \in 1..Len(chars.out) : chars.out[i].v.rarity \in 1..5
    /\ WeapsBuilt => \A i \in 1..Len(weaps.out) : weaps.out[i].v.rarity \in 1..5

CharacterFields == {"name", "rarity", "element", "weapon_type", "icon_name"}

\* C5 as stated: every value of either table has exactly the fields name,
\* rarity, element, weapon_type and icon_name, element being null.
C5_SameFieldsInBothTables ==
    /\ CharsBuilt => \A i \in 1..Len(chars.out) :
          /\ DOMAIN chars.out[i].v = CharacterFields
          /\ chars.out[i].v.element = None
    /\ WeapsBuilt => \A i \in 1..Len(weaps.out) :
          /\ DOMAIN weaps.out[i].v = CharacterFields
          /\ weaps.out[i].v.element = None

\* C5 amended: every value of the characters table has exactly the fields
\* name, rarity, element, weapon_type and icon_name, element being null;
\* every value of the weapons table has exactly name, rarity, type, icon_name.
C5_FieldsPerTable ==
    /\ CharsBuilt => \A i \in 1..Len(chars.out) :
          /\ DOMAIN chars.out[i].v = CharacterFields
          /\ chars.out[i].v.element = None
    /\ WeapsBuilt => \A i \in 1..Len(weaps.out) :
          DOMAIN weaps.out[i].v = {"name", "rarity", "type", "icon_name"}

\* C5's case: build_weapons has emitted records
C5_Witness == WeapsBuilt /\ Len(weaps.out) >= 2

\* the label the contract gives a weapon-type field; an empty code counts
\* as no code
ContractLabel(x) ==
    IF x = Missing \/ x = None \/ x = Str("") THEN "Unknown"
    ELSE CASE x.v = "WEAPON_SWORD_ONE_HAND" -> "Sword"
           [] x.v = "WEAPON_CLAYMORE" -> "Claymore"
           [] x.v = "WEAPON_POLE" -> "Polearm"
           [] x.v = "WEAPON_CATALYST" -> "Catalyst"
           [] x.v = "WEAPON_BOW" -> "Bow"
           [] OTHER -> x.v

\* the only candidate of the list with its key
SoleAvatar(i) == \A j \in 1..Len(avatars) : Get(avatars[j].id) = Get(avatars[i].id) => j = i
SoleWeapon(i) == \A j \in 1..Len(weapons) : Get(weapons[j].id) = Get(weapons[i].id) => j = i

\* C9 as stated: an emitted candidate without a weapon-type code carries
\* the label "Unknown"; the five known codes carry their short labels and
\* any other code is passed through.
C9_WeaponTypeLabel ==
    /\ CharsBuilt => \A i \in PassingAvatars :
          LET k == PyStr(Get(avatars[i].id))
          IN  (SoleAvatar(i) /\ k \in Keys(chars.out)) =>
                 DictGet(chars.out, k).weapon_type = ContractLabel(avatars[i].weaponType)
    /\ WeapsBuilt => \A i \in PassingWeapons :
          LET k == PyStr(Get(weapons[i].id))
          IN  (SoleWeapon(i) /\ k \in Keys(weaps.out)) =>
                 DictGet(weaps.out, k).type = ContractLabel(weapons[i].weaponType)

\* a candidate whose id is missing or not a number
LacksId(x) == x.id = Missing \/ x.id = None \/ ~PyInt(Get(x.id)).ok

WithId(list) == SelectSeq(list, LAMBDA x : ~LacksId(x))

\* C10 as stated: with candidates whose id is missing or not a number in
\* the list, the builder still returns a table, and it is the table the
\* candidates with an id alone would give.
C10_LackingIdExcluded ==
    /\ pc = "chars" =>
          /\ ~chars.raised
          /\ chars.out = build_characters(WithId(avatars), textmap).out
    /\ pc = "weaps" =>
          /\ ~weaps.raised
          /\ weaps.out = build_weapons(WithId(weapons), textmap).out

HexDigitVal(c) == (CHOOSE d \in 1..16 : SubSeq(HexDigits, d, d) = c) - 1

RECURSIVE HexVal(_)
HexVal(s) ==
    IF Len(s) = 0 THEN 0
    ELSE 16 * HexVal(SubSeq(s, 1, Len(s) - 1)) + HexDigitVal(SubSeq(s, Len(s), Len(s)))

\* the bit of the returned hash for row r and column c, the bits being
\* packed row-major, most significant first
HashBit(r, c) ==
    (HexVal(dhash) \div 2 ^ (HashSize * HashSize - ((r - 1) * HashSize + c))) % 2

\* C4 as stated: the bit for (r, c) is 1 exactly when the pixel at (r, c) is
\* strictly greater than its right neighbour at (r, c + 1).
C4_BitIsLeftGreater ==
    pc = "done" =>
        /\ HexVal(dhash) < 2 ^ (HashSize * HashSize)
        /\ \A r \in 1..HashSize, c \in 1..HashSize :
              HashBit(r, c) = 1 <=> resized[r][c] > resized[r][c + 1]

\* C4 amended: the bit for (r, c) is 1 exactly when the right neighbour at
\* (r, c + 1) is strictly greater than the pixel at (r, c), and 0 otherwise;
\* the hashSize * hashSize bits are packed row-major, most significant first.
C4_BitIsRightGreater ==
    pc = "done" =>
        /\ HexVal(dhash) < 2 ^ (HashSize * HashSize)
        /\ \A r \in 1..HashSize, c \in 1..HashSize :
              HashBit(r, c) = 1 <=> resized[r][c + 1] > resized[r][c]

\* C4's case: a hashed grid with a rising, a falling and a level pair
C4_Witness ==
    /\ pc = "done"
    /\ \E r \in 1..HashSize, c \in 1..HashSize : resized[r][c + 1] > resized[r][c]
    /\ \E r \in 1..HashSize, c \in 1..HashSize : resized[r][c + 1] < resized[r][c]
    /\ \E r \in 1..HashSize, c \in 1..HashSize : resized[r][c + 1] = resized[r][c]

\* the positions whose icon was fetched, decoded and hashed
OkSet(oc) == {i \in 1..Len(oc) : oc[i] = "ok"}

SecondRunDone == pc = "done" /\ runs >= 2

\* C3 as stated: two complete runs on the same upstream inputs write the
\* same tables and the same hash indices, whatever each icon fetch meets.
C3_RunsWriteSameFiles ==
    SecondRunDone => \A p \in DataFiles : files[p] = prev.files[p]

\* C3 amended: two complete runs on the same upstream inputs write identical
\* characters/weapons tables; they write identical hash indices when the
\* same icons are fetched, decoded and hashed successfully in both runs.
C3_SameFilesOnSameFetches ==
    SecondRunDone =>
        /\ files[OUT_CHAR] = prev.files[OUT_CHAR]
        /\ files[OUT_WEAP] = prev.files[OUT_WEAP]
        /\ OkSet(outcome.c) = OkSet(prev.outcome.c) =>
              files[OUT_HIDX_CHAR] = prev.files[OUT_HIDX_CHAR]
        /\ OkSet(outcome.w) = OkSet(prev.outcome.w) =>
              files[OUT_HIDX_WEAP] = prev.files[OUT_HIDX_WEAP]

\* C3's case: the second run met other failures than the first on the same
\* icons, with an icon hashed in both
C3_Witness ==
    /\ SecondRunDone
    /\ outcome.c # prev.outcome.c
    /\ OkSet(outcome.c) = OkSet(prev.outcome.c)
    /\ OkSet(outcome.c) # {}
    /\ Len(chars.out) >= 2

IndexBuilt == pc \in {"save", "now", "manifest", "done"}

\* C6: build_hash_index never raises, whatever the icons meet, and the keys
\* of the index it returns are exactly the table keys whose icon was fetched,
\* decoded and hashed; so they are table keys, and no more than the table has.
C6_IndexKeys ==
    /\ ~hidx_char.raised
    /\ ~hidx_weap.raised
    /\ IndexBuilt =>
          /\ Keys(hidx_char.idx) = {chars.out[i].k : i \in OkSet(outcome.c)}
          /\ Keys(hidx_weap.idx) = {weaps.out[i].k : i \in OkSet(outcome.w)}
          /\ Keys(hidx_char.idx) \subseteq Keys(chars.out)
          /\ Keys(hidx_weap.idx) \subseteq Keys(weaps.out)
          /\ Len(hidx_char.idx) <= Len(chars.out)
          /\ Len(hidx_weap.idx) <= Len(weaps.out)

\* C6's case: an index built while one icon failed to hash and another
\* succeeded
C6_Witness ==
    /\ pc = "save"
    /\ \E i, j \in 1..Len(outcome.c) : outcome.c[i] = "hash_error" /\ outcome.c[j] = "ok"
    /\ \E i \in 1..Len(outcome.w) : outcome.w[i] \in {"fetch_error", "decode_none"}

\* C7: after main completes, the manifest's files map lists the four data
\* artifacts and not the manifest, and each stored digest is the digest of
\* the bytes this run wrote to that file.
C7_ManifestDigests ==
    pc = "done" =>
        /\ DOMAIN manifest.files = DataFiles
        /\ OUT_MANIFEST \notin DOMAIN manifest.files
        /\ files[OUT_CHAR] = DumpCharacters(chars.out)
        /\ files[OUT_WEAP] = DumpWeapons(weaps.out)
        /\ files[OUT_HIDX_CHAR] = DumpIndex(hidx_char.idx)
        /\ files[OUT_HIDX_WEAP] = DumpIndex(hidx_weap.idx)
        /\ \A p \in DataFiles : manifest.files[p].sha256 = Sha256(files[p])

\* C7's case: a second run completed that wrote other bytes than the first
C7_Witness ==
    /\ SecondRunDone
    /\ files[OUT_HIDX_CHAR] # prev.files[OUT_HIDX_CHAR]
    /\ files[OUT_HIDX_WEAP] # prev.files[OUT_HIDX_WEAP]

\* C8 as stated: the version tag of a written manifest is the date of the
\* generated_at timestamp of the same manifest.
C8_VersionIsGenerationDate ==
    pc = "done" => manifest.version = manifest.generated_at.date

====
